---- MODULE Spec2Model ----
(***************************************************************************)
(* A model of git-fetch-series.py: the reconstruction of a patch series    *)
(* from an NNTP archive (Thread, Archive.get_patch_series, mboxify, main). *)
(*                                                                         *)
(* Text is modelled as sequences of one-character strings, so that the     *)
(* regular expressions and the splitting of the source are computed the    *)
(* way the source computes them.  A Message carries the fields the code    *)
(* decides on (number, subject, poster, msg_id, references); the date is   *)
(* only copied to the output and is left out.                              *)
(***************************************************************************)
EXTENDS Integers, Sequences, FiniteSets, TLC

\* ------------------------------------------------------------------ text

\* The characters in use, in ASCII order: Python compares str by code point.
Alphabet ==
    << " ", "+", "-", "/", "0", "1", "2", "3", "4", "5", "6", "7", "8", "9",
       ":", "A", "C", "H", "P", "R", "T", "[", "]",
       "a", "b", "c", "d", "e", "f", "h", "i", "l", "n", "o", "r", "t",
       "v", "x", "y", "z" >>

Ord(ch) == CHOOSE i \in 1..Len(Alphabet) : Alphabet[i] = ch

Digits == << "0", "1", "2", "3", "4", "5", "6", "7", "8", "9" >>

IsDigit(ch) == \E i \in 1..Len(Digits) : Digits[i] = ch

DigitVal(ch) == (CHOOSE i \in 1..Len(Digits) : Digits[i] = ch) - 1

\* The characters of a text, "X" of the identifiers among them.
Chars == { Alphabet[i] : i \in 1..Len(Alphabet) } \cup { "X" }

\* int("007") = 7
IntOf(digits) ==
    LET value[ds \in Seq(Chars)] ==
            IF ds = << >> THEN 0
            ELSE 10 * value[SubSeq(ds, 1, Len(ds) - 1)] + DigitVal(ds[Len(ds)])
    IN  value[digits]

\* The first index j >= i with j > Len(s) or IsDigit(s[j]) # digit.
RunEnd(s, i, digit) ==
    LET end[j \in Nat] ==
            IF j > Len(s) \/ IsDigit(s[j]) # digit THEN j ELSE end[j + 1]
    IN  end[i]

\* str.split("]")[0]: the text before the first "]" (all of it if there is none).
BeforeBracket(text) ==
    LET before[s \in Seq(Chars)] ==
            IF s = << >> \/ Head(s) = "]" THEN << >>
            ELSE << Head(s) >> \o before[Tail(s)]
    IN  before[text]

\* Mutant: every digit run becomes "X", the denominator too.
SubAllNumbers(text) ==
    LET sub[s \in Seq(Chars)] ==
            IF s = << >> THEN << >>
            ELSE IF IsDigit(Head(s))
                 THEN << "X" >> \o sub[SubSeq(s, RunEnd(s, 1, TRUE), Len(s))]
                 ELSE << Head(s) >> \o sub[Tail(s)]
    IN  sub[text]

\* re.sub(r"[0-9]+/", "X/", s): every digit run that a "/" follows becomes "X".
SubCounter(text) ==
    LET sub[s \in Seq(Chars)] ==
            IF s = << >> THEN << >>
            ELSE IF IsDigit(Head(s))
                 THEN LET e == RunEnd(s, 1, TRUE)
                      IN  IF e <= Len(s) /\ s[e] = "/"
                          THEN << "X", "/" >> \o sub[SubSeq(s, e + 1, Len(s))]
                          ELSE SubSeq(s, 1, e - 1) \o sub[SubSeq(s, e, Len(s))]
                 ELSE << Head(s) >> \o sub[Tail(s)]
    IN  sub[text]

subject_identifier(msg) == SubCounter(BeforeBracket(msg.subject) \o << "]" >>)

\* re.split(r"([0-9]+)", s) with the digit runs converted by int(): the tokens
\* alternate text, number, text, ..., beginning and ending with a text token.
SplitDigits(subject, start) ==
    LET split[s \in Seq(Chars), i \in Nat] ==
            LET j == RunEnd(s, i, FALSE)
                text == [t |-> "s", s |-> SubSeq(s, i, j - 1), n |-> 0]
            IN  IF j > Len(s) THEN << text >>
                ELSE LET k == RunEnd(s, j, TRUE)
                     IN  << text, [t |-> "n", s |-> << >>, n |-> IntOf(SubSeq(s, j, k - 1))] >>
                         \o split[s, k]
    IN  split[subject, start]

sortkey(msg) == SplitDigits(msg.subject, 1)

\* Python 2 str < str.
StrLess(a, b) ==
    LET less[x \in Seq(Chars), y \in Seq(Chars)] ==
            IF y = << >> THEN FALSE
            ELSE IF x = << >> THEN TRUE
            ELSE IF Head(x) # Head(y) THEN Ord(Head(x)) < Ord(Head(y))
            ELSE less[Tail(x), Tail(y)]
    IN  less[a, b]

\* Python 2 orders an int before a str; equal types compare by value.
TokenLess(x, y) ==
    IF x.t = "n" /\ y.t = "n" THEN x.n < y.n
    ELSE IF x.t = "s" /\ y.t = "s" THEN StrLess(x.s, y.s)
    ELSE x.t = "n"

\* The tokens of a sortkey.
Tokens == [t : { "s", "n" }, s : Seq(Chars), n : Nat]

\* Python list < list: the first differing element decides, else the length.
KeyLess(a, b) ==
    LET less[x \in Seq(Tokens), y \in Seq(Tokens)] ==
            IF y = << >> THEN FALSE
            ELSE IF x = << >> THEN TRUE
            ELSE IF Head(x) # Head(y) THEN TokenLess(Head(x), Head(y))
            ELSE less[Tail(x), Tail(y)]
    IN  less[a, b]

\* sorted(seq, key=sortkey) computes the key of every element once.
KeysOf(seq) ==
    LET keys[k \in 0..Len(seq)] ==
            IF k = 0 THEN << >> ELSE Append(keys[k - 1], sortkey(seq[k]))
    IN  keys[Len(seq)]

\* The sort is stable: an element goes after those not greater.  It is done on
\* the elements' places: sorted holds places, m is the place to insert.
InsertByKey(keys, sorted, m) ==
    LET insert[s \in Seq(Nat)] ==
            IF s = << >> THEN << m >>
            ELSE IF KeyLess(keys[m], keys[Head(s)])
                 THEN << m >> \o s
                 ELSE << Head(s) >> \o insert[Tail(s)]
    IN  insert[sorted]

SortedByKey(seq) ==
    LET places[keys \in Seq(Seq(Tokens))] ==
            LET sort[k \in 0..Len(keys)] ==
                    IF k = 0 THEN << >> ELSE InsertByKey(keys, sort[k - 1], k)
            IN  sort[Len(keys)]
        pick[s \in Seq(Nat)] ==
            IF s = << >> THEN << >> ELSE << seq[Head(s)] >> \o pick[Tail(s)]
    IN  pick[places[KeysOf(seq)]]

\* --------------------------------------------------------------- messages

\* Message = namedtuple(number, subject, poster, date, msg_id, references).
Message(number, subject, poster, msg_id, references) ==
    [number |-> number, subject |-> subject, poster |-> poster,
     msg_id |-> msg_id, references |-> references]

NoMessage == [number |-> 0, subject |-> << >>, poster |-> "", msg_id |-> << "none", 0 >>,
              references |-> << >>]

MsgId(n) == << "id", n >>
ExternalId == << "ext", 1 >>
UnknownId == << "ext", 2 >>

Range(seq) == { seq[i] : i \in 1..Len(seq) }

PosterA == "a@x"
PosterB == "b@y"

TagOpen == << "[", "P", "A", "T", "C", "H", " " >>
Subj_0_2 == TagOpen \o << "0", "/", "2", "]", " ", "i", "n", "t", "r", "o" >>
Subj_1_2 == TagOpen \o << "1", "/", "2", "]", " ", "a" >>
Subj_2_2 == TagOpen \o << "2", "/", "2", "]", " ", "b" >>
Subj_9_10 == TagOpen \o << "9", "/", "1", "0", "]", " ", "y" >>
Subj_10_10 == TagOpen \o << "1", "0", "/", "1", "0", "]", " ", "z" >>
Subj_Re_1_2 == << "R", "e", ":", " " >> \o Subj_1_2
Subj_2_2_fix == TagOpen \o << "2", "/", "2", "]", " ", "f", "i", "x", " ", "0", "/", "1" >>
Subj_hello == << "h", "e", "l", "l", "o" >>

\* Body lines as the transport returns them.
LineText == << "h", "e", "l", "l", "o" >>
LineDiff == << "d", "i", "f", "f", " ", "a", " ", "b" >>
LineQuotedDiff == << "+", " ", "d", "i", "f", "f", " ", "a" >>
BodyPatch == << LineText, LineDiff >>
BodyCover == << LineText, LineQuotedDiff >>
Bodies == { BodyPatch, BodyCover }

StartsWith(s, prefix) ==
    Len(s) >= Len(prefix) /\ SubSeq(s, 1, Len(prefix)) = prefix

is_diff(body) ==
    \E i \in 1..Len(body) : StartsWith(body[i], << "d", "i", "f", "f", " " >>)

RECURSIVE ZeroRunEnd(_, _)
ZeroRunEnd(s, i) ==
    IF i > Len(s) \/ s[i] # "0" THEN i ELSE ZeroRunEnd(s, i + 1)

\* re.search(r" 0+/[0-9]+", subject)
CounterZero(subject) ==
    \E i \in 1..Len(subject) :
        /\ subject[i] = " "
        /\ i + 1 <= Len(subject)
        /\ subject[i + 1] = "0"
        /\ LET e == ZeroRunEnd(subject, i + 1)
           IN  /\ e + 1 <= Len(subject)
               /\ subject[e] = "/"
               /\ IsDigit(subject[e + 1])

\* ----------------------------------------------------------------- Thread

NoThread == [first |-> NoMessage, ignored_references |-> {}, ids |-> {},
             thread |-> << >>, thread_identifier |-> << >>]

NewThread(start_msg) ==
    [first |-> start_msg,
     ignored_references |-> Range(start_msg.references),
     ids |-> { start_msg.msg_id },
     thread |-> << start_msg >>,
     thread_identifier |-> subject_identifier(start_msg)]

\* Mutant: the references are not looked at.
should_include_no_refs(th, msg) ==
    /\ msg.poster = th.first.poster
    /\ subject_identifier(msg) = th.thread_identifier

\* Mutant: the poster is not looked at.
should_include_any_poster(th, msg) ==
    /\ subject_identifier(msg) = th.thread_identifier
    /\ (Range(msg.references) \ th.ignored_references) \subseteq th.ids

should_include(th, msg) ==
    /\ msg.poster = th.first.poster
    /\ subject_identifier(msg) = th.thread_identifier
    /\ (Range(msg.references) \ th.ignored_references) \subseteq th.ids

\* Mutant: the message is appended twice.
append_twice(th, msg) ==
    [th EXCEPT !.thread = @ \o << msg, msg >>, !.ids = @ \cup { msg.msg_id }]

\* Mutant: the message's id is not recorded.
append_without_id(th, msg) == [th EXCEPT !.thread = Append(@, msg)]

append(th, msg) ==
    [th EXCEPT !.thread = Append(@, msg), !.ids = @ \cup { msg.msg_id }]

in_order(th) == SortedByKey(th.thread)

\* ------------------------------------------------------ program constants

\* n_since_last > 5 ends the forward scan.
GiveUp == 5
\* messages_starting_from asks for start_id .. start_id + 20.
WindowStep == 20
\* the second loop of get_patch_series asks for start_id - 5 .. start_id - 1.
BackWindow == 5
\* get_patch_series(user_input, search_limit=100)
DefaultSearchLimit == 100

\* ----------------------------------------------------------------- bounds

\* The archive's last number is at most Anchor + MaxTail.
MaxTail == 14
\* search_limit ranges over 1 .. MaxSearchLimit, and the default.
MaxSearchLimit == 8

\* ------------------------------------------------------ the archive inputs

\* The numbers the user's input may resolve to.
UserNumbers == { 10 }
Anchor == CHOOSE n \in UserNumbers : TRUE
FirstNumber == Anchor - BackWindow - 1

Min(a, b) == IF a < b THEN a ELSE b
Max(a, b) == IF a < b THEN b ELSE a

Filler(n) == Message(n, Subj_hello, PosterB, MsgId(n), << >>)

\* What a header before, and after, the start number may be.
BackKinds == { "gap", "lead", "member1", "other" }
ForwardKinds == { "gap", "member1", "member2", "other", "reply", "ten", "stray", "fix" }
KindsAt(n) == IF n < Anchor THEN BackKinds ELSE ForwardKinds

KindMessage(kind, n) ==
    CASE kind = "gap" -> NoMessage
      [] kind = "filler" -> Filler(n)
      [] kind = "member1" -> Message(n, Subj_1_2, PosterA, MsgId(n), << MsgId(Anchor) >>)
      [] kind = "member2" -> Message(n, Subj_2_2, PosterA, MsgId(n), << MsgId(n - 1) >>)
      [] kind = "lead" -> Message(n, Subj_0_2, PosterA, MsgId(n), << >>)
      [] kind = "other" -> Message(n, Subj_1_2, PosterB, MsgId(n), << MsgId(Anchor) >>)
      [] kind = "reply" -> Message(n, Subj_Re_1_2, PosterA, MsgId(n), << MsgId(Anchor) >>)
      [] kind = "ten" -> Message(n, Subj_10_10, PosterA, MsgId(n), << MsgId(Anchor) >>)
      [] kind = "stray" -> Message(n, Subj_2_2, PosterA, MsgId(n),
                                   << MsgId(Anchor), UnknownId >>)
      [] kind = "fix" -> Message(n, Subj_2_2_fix, PosterA, MsgId(n),
                                 << ExternalId, MsgId(Anchor) >>)
      [] kind = "intro" -> Message(n, Subj_0_2, PosterA, MsgId(n), << ExternalId >>)
      [] kind = "first" -> Message(n, Subj_1_2, PosterA, MsgId(n), << MsgId(n - 1) >>)
      [] kind = "nine" -> Message(n, Subj_9_10, PosterA, MsgId(n), << >>)
      [] OTHER -> NoMessage

SeedKinds == { "gap", "intro", "first", "nine" }

SpecialPositions ==
    { Anchor - BackWindow - 1, Anchor - BackWindow, Anchor - 1,
      Anchor + 1, Anchor + 2, Anchor + GiveUp + 1, Anchor + GiveUp + 2 }

\* At most two special headers; one at most when the start number is a gap.
SpecialChoices(seedKind) ==
    UNION { { f \in [S -> BackKinds \cup ForwardKinds] : \A n \in S : f[n] \in KindsAt(n) } :
            S \in { T \in SUBSET SpecialPositions :
                        Cardinality(T) <= (IF seedKind = "gap" THEN 1 ELSE 2) } }

\* Few special headers among unrelated ones, up to the largest last number.
RichArchive(seedKind, special) ==
    [n \in FirstNumber..(Anchor + MaxTail) |->
        IF n = Anchor THEN seedKind
        ELSE IF n \in DOMAIN special THEN special[n]
        ELSE "filler"]

\* A series of m members after the seed, then unrelated headers up to last.
SeriesArchive(m, lastNumber) ==
    [n \in FirstNumber..lastNumber |->
        IF n = Anchor THEN "intro"
        ELSE IF n = Anchor + 1 /\ m >= 1 THEN "member1"
        ELSE IF n > Anchor /\ n <= Anchor + m THEN "member2"
        ELSE "filler"]

RichInputs ==
    UNION { { [archive |-> RichArchive(sk, sp), last |-> Anchor + MaxTail,
               search_limit |-> DefaultSearchLimit] : sp \in SpecialChoices(sk) } :
            sk \in SeedKinds }

SearchLimits == (1..MaxSearchLimit) \cup { DefaultSearchLimit }

SeriesInputs ==
    { [archive |-> SeriesArchive(in[1], Anchor + in[2]), last |-> Anchor + in[2],
       search_limit |-> in[3]] :
      in \in { t \in (0..MaxTail) \X (0..MaxTail) \X SearchLimits : t[1] <= t[2] } }

\* A series that fills more than one window of the forward traversal.
LongInputs ==
    { [archive |-> SeriesArchive(WindowStep + d, Anchor + WindowStep + d),
       last |-> Anchor + WindowStep + d,
       search_limit |-> DefaultSearchLimit] : d \in 0..2 }

Inputs == RichInputs \cup SeriesInputs \cup LongInputs

\* ------------------------------------------------------------------ state

VARIABLES
    pc,            \* where the run is: idle, resolving, seed, forward, backfetch,
                   \* backward, serializing, done, failed
    archive,       \* the group on the server: number -> the kind of header it holds
    last,          \* Archive.last
    search_limit,  \* get_patch_series's search_limit
    start_id,      \* the number get_number_from_user returned
    gen_start,     \* messages_starting_from's start_id
    gen_buf,       \* the numbers of the window's headers not yet yielded
    c,             \* limit's enumerate index of the next item
    thread,        \* the Thread
    n_since_last,  \* get_patch_series's n_since_last
    back_buf,      \* the numbers of the backward window's headers not yet evaluated
    order,         \* mboxify: the members of in_order() not yet serialized
    lines,         \* mboxify: the blocks appended so far
    stdout,        \* the documents printed
    stderr,        \* the diagnostics written
    failure,       \* the kind of the error that ended the run ("" if none)
    yielded,       \* history: the numbers messages_starting_from yielded
    taken,         \* history: how many headers limit() yielded
    fwd_log,       \* history: the headers the forward loop received
    back_log,      \* history: the headers the backward loop received
    body_log,      \* history: the bodies fetched
    exit_status,   \* the status the process exited with (empty while it runs)
    text_in,       \* subjects handed to Thread's static methods on their own
    text_out       \* what the static methods returned for them

vars == << pc, archive, last, search_limit, start_id, gen_start, gen_buf, c, thread,
           n_since_last, back_buf, order, lines, stdout, stderr, failure,
           yielded, taken, fwd_log, back_log, body_log, exit_status, text_in, text_out >>

input == << archive, last, search_limit >>
generator == << gen_start, gen_buf, c, yielded, taken >>
scan == << thread, n_since_last, fwd_log, back_buf, back_log >>
mbox == << order, lines, body_log >>
text == << text_in, text_out >>

\* The Message built from the overview tuple the server holds at number n.
MessageAt(arch, n) == KindMessage(arch[n], n)

HasHeader(arch, n) == n \in DOMAIN arch /\ arch[n] # "gap"

\* The numbers of the headers lo..hi that the server holds, ascending.
RECURSIVE HeadersIn(_, _, _)
HeadersIn(arch, lo, hi) ==
    IF lo > hi THEN << >>
    ELSE (IF HasHeader(arch, lo) THEN << lo >> ELSE << >>) \o HeadersIn(arch, lo + 1, hi)

\* Mutant: the end of the range is left out.
xover_exclusive(arch, begin, end) ==
    IF begin = end THEN << >>
    ELSE HeadersIn(arch, Min(begin, end), Max(begin, end) - 1)

\* Mutant: the range begins one number early.
xover_wide(arch, begin, end) ==
    IF begin = end THEN << >>
    ELSE HeadersIn(arch, Min(begin, end) - 1, Max(begin, end))

\* Archive.xover(begin, end): no request at all when begin = end.  The result is
\* kept as the headers' numbers; MessageAt gives the Message of each.
xover(arch, begin, end) ==
    IF begin = end THEN << >>
    ELSE HeadersIn(arch, Min(begin, end), Max(begin, end))

\* Mutant: the cap is never applied.
LimitStopsNever(idx, lim) == FALSE

\* limit(generator, limit): the item of enumerate index idx is cut off.
LimitStops(idx, lim) == idx > lim

\* messages_starting_from: another window is asked for.
MoreWindows(start, lastNumber) == start < lastNumber

\* Mutant: the window ends before it begins, and the cursor stays.
WindowEndStuck(start, lastNumber) == start - 1

\* The end of the window that begins at start.
WindowEnd(start, lastNumber) == Min(start + WindowStep, lastNumber)

\* Mutant: the scan gives up one rejection early.
StreakReached(n) == n >= GiveUp

\* The forward loop's test of n_since_last.
StreakOver(n) == n > GiveUp

\* Mutant: a counter-zero member is left out whatever its body.
SkipsCounterZero(message, body) == CounterZero(message.subject)

\* mboxify's test for leaving a member out.
SkipsBlock(message, body) == CounterZero(message.subject) /\ ~is_diff(body)

\* The lines mboxify appends for one member.
Block(message, body) ==
    [number |-> message.number, poster |-> message.poster, subject |-> message.subject,
     msg_id |-> message.msg_id, references |-> message.references, body |-> body]

LogEntry(message, th, evaluated, included) ==
    [number |-> message.number, ids |-> th.ids, evaluated |-> evaluated,
     included |-> included]

Init ==
    /\ \E in \in Inputs :
        /\ archive = in.archive
        /\ last = in.last
        /\ search_limit = in.search_limit
    /\ pc = "idle"
    /\ start_id = 0
    /\ gen_start = 0
    /\ gen_buf = << >>
    /\ c = 0
    /\ thread = NoThread
    /\ n_since_last = 0
    /\ back_buf = << >>
    /\ order = << >>
    /\ lines = << >>
    /\ stdout = << >>
    /\ stderr = << >>
    /\ failure = ""
    /\ yielded = << >>
    /\ taken = 0
    /\ fwd_log = << >>
    /\ back_log = << >>
    /\ body_log = << >>
    /\ exit_status = << >>
    /\ text_in = << >>
    /\ text_out = << >>

\* main returns and the interpreter exits: nothing in main sets a status.
ExitOfMain == << 0 >>

\* Mutant: the diagnostic is written and the run goes on.
FailAndGoOn(kind) ==
    /\ failure' = kind
    /\ stderr' = Append(stderr, kind)
    /\ UNCHANGED << pc, input, text, stdout, start_id, exit_status >>

\* main's except clauses: one diagnostic line, nothing printed; main returns.
Fail(kind) ==
    /\ pc' = "failed"
    /\ failure' = kind
    /\ stderr' = Append(stderr, kind)
    /\ exit_status' = ExitOfMain
    /\ UNCHANGED << input, text, stdout, start_id >>

\* Archive.__init__: connect and select the group.
Connect ==
    /\ pc = "idle"
    /\ pc' = "resolving"
    /\ UNCHANGED << input, text, start_id, generator, scan, mbox, stdout, stderr, failure, exit_status >>

ConnectFails ==
    /\ pc = "idle"
    /\ Fail("transport")
    /\ UNCHANGED << generator, scan, mbox >>

\* get_number_from_user: the Xref header of the HEAD reply gives the number.
Resolve ==
    /\ pc = "resolving"
    /\ \E n \in UserNumbers :
        /\ start_id' = n
        /\ gen_start' = n
    /\ pc' = "seed"
    /\ UNCHANGED << input, text, gen_buf, c, yielded, taken, scan, mbox, stdout, stderr, failure, exit_status >>

ResolveNoXref ==
    /\ pc = "resolving"
    /\ Fail("resolution")
    /\ UNCHANGED << generator, scan, mbox >>

ResolveFails ==
    /\ pc = "resolving"
    /\ Fail("transport")
    /\ UNCHANGED << generator, scan, mbox >>

\* The generator is resumed with its window used up and asks for the next one.
\* (start_id = next_id + 1 runs when the window's loop ends; nothing reads
\* start_id in between, so it is set here.)
FetchWindow ==
    /\ pc \in { "seed", "forward" }
    /\ gen_buf = << >>
    /\ MoreWindows(gen_start, last)
    /\ gen_buf' = xover(archive, gen_start, WindowEnd(gen_start, last))
    /\ gen_start' = WindowEnd(gen_start, last) + 1
    /\ UNCHANGED << pc, input, text, start_id, c, yielded, taken, scan, mbox,
                    stdout, stderr, failure, exit_status >>

FetchWindowFails ==
    /\ pc \in { "seed", "forward" }
    /\ gen_buf = << >>
    /\ MoreWindows(gen_start, last)
    /\ Fail("transport")
    /\ UNCHANGED << generator, scan, mbox >>

\* The generator can answer without a request to the server.
GeneratorReady == gen_buf # << >> \/ ~MoreWindows(gen_start, last)

\* thread = Thread(messages.next())
TakeSeed ==
    /\ pc = "seed"
    /\ gen_buf # << >>
    /\ ~LimitStops(c, search_limit)
    /\ thread' = NewThread(MessageAt(archive, Head(gen_buf)))
    /\ gen_buf' = Tail(gen_buf)
    /\ yielded' = Append(yielded, Head(gen_buf))
    /\ c' = c + 1
    /\ taken' = taken + 1
    /\ n_since_last' = 0
    /\ pc' = "forward"
    /\ UNCHANGED << input, text, start_id, gen_start, fwd_log, back_buf, back_log, mbox,
                    stdout, stderr, failure, exit_status >>

\* except StopIteration: raise FatalError("No message at id ...")
SeedNotFound ==
    /\ pc = "seed"
    /\ GeneratorReady
    /\ gen_buf = << >> \/ LimitStops(c, search_limit)
    /\ Fail("seed_not_found")
    /\ UNCHANGED << generator, scan, mbox >>

\* for message in messages: the stream has ended; the loop's else clause raises.
ForwardExhausted ==
    /\ pc = "forward"
    /\ GeneratorReady
    /\ gen_buf = << >>
    /\ Fail("series_bounds")
    /\ UNCHANGED << generator, scan, mbox >>

\* limit() takes one more item from the generator and stops; the else clause raises.
ForwardBudget ==
    /\ pc = "forward"
    /\ gen_buf # << >>
    /\ LimitStops(c, search_limit)
    /\ gen_buf' = Tail(gen_buf)
    /\ yielded' = Append(yielded, Head(gen_buf))
    /\ c' = c + 1
    /\ Fail("series_bounds")
    /\ UNCHANGED << gen_start, taken, scan, mbox >>

\* The Message the generator yields next.
NextHeader == MessageAt(archive, Head(gen_buf))

\* The loop receives a header: what limit() and the generator do for it.
Receive ==
    /\ pc = "forward"
    /\ gen_buf # << >>
    /\ ~LimitStops(c, search_limit)
    /\ gen_buf' = Tail(gen_buf)
    /\ yielded' = Append(yielded, Head(gen_buf))
    /\ c' = c + 1
    /\ taken' = taken + 1
    /\ UNCHANGED << input, text, start_id, gen_start, back_buf, back_log, mbox,
                    stdout, stderr, failure, exit_status >>

\* if n_since_last > 5: break
ForwardBreak ==
    /\ Receive
    /\ StreakOver(n_since_last)
    /\ fwd_log' = Append(fwd_log, LogEntry(NextHeader, thread, FALSE, FALSE))
    /\ pc' = "backfetch"
    /\ UNCHANGED << thread, n_since_last >>

\* elif thread.should_include(message): n_since_last = 0; thread.append(message)
ForwardInclude ==
    /\ Receive
    /\ ~StreakOver(n_since_last)
    /\ should_include(thread, NextHeader)
    /\ n_since_last' = 0
    /\ thread' = append(thread, NextHeader)
    /\ fwd_log' = Append(fwd_log, LogEntry(NextHeader, thread, TRUE, TRUE))
    /\ UNCHANGED pc

\* else: n_since_last += 1
ForwardReject ==
    /\ Receive
    /\ ~StreakOver(n_since_last)
    /\ ~should_include(thread, NextHeader)
    /\ n_since_last' = n_since_last + 1
    /\ fwd_log' = Append(fwd_log, LogEntry(NextHeader, thread, TRUE, FALSE))
    /\ UNCHANGED << pc, thread >>

\* self.xover(start_id - 5, start_id - 1)
BackFetch ==
    /\ pc = "backfetch"
    /\ back_buf' = xover(archive, start_id - BackWindow, start_id - 1)
    /\ pc' = "backward"
    /\ UNCHANGED << input, text, start_id, generator, thread, n_since_last, fwd_log, back_log,
                    mbox, stdout, stderr, failure, exit_status >>

BackFetchFails ==
    /\ pc = "backfetch"
    /\ Fail("transport")
    /\ UNCHANGED << generator, scan, mbox >>

\* if thread.should_include(message): thread.append(message)
BackwardStep ==
    /\ pc = "backward"
    /\ back_buf # << >>
    /\ LET message == MessageAt(archive, Head(back_buf))
           ok == should_include(thread, message)
       IN  /\ thread' = IF ok THEN append(thread, message) ELSE thread
           /\ back_log' = Append(back_log, LogEntry(message, thread, TRUE, ok))
    /\ back_buf' = Tail(back_buf)
    /\ UNCHANGED << pc, input, text, start_id, generator, n_since_last, fwd_log, mbox,
                    stdout, stderr, failure, exit_status >>

\* return self.mboxify(thread): lines = []; for message in thread.in_order()
StartMboxify ==
    /\ pc = "backward"
    /\ back_buf = << >>
    /\ order' = in_order(thread)
    /\ lines' = << >>
    /\ pc' = "serializing"
    /\ UNCHANGED << input, text, start_id, generator, scan, body_log, stdout, stderr, failure, exit_status >>

\* self.conn.body(str(message.number)), then the block unless it is left out.
FetchBody ==
    /\ pc = "serializing"
    /\ order # << >>
    /\ \E body \in Bodies :
        /\ lines' = IF SkipsBlock(Head(order), body) THEN lines
                    ELSE Append(lines, Block(Head(order), body))
        /\ body_log' = Append(body_log, [number |-> Head(order).number, body |-> body])
    /\ order' = Tail(order)
    /\ UNCHANGED << pc, input, text, start_id, generator, scan, stdout, stderr, failure, exit_status >>

FetchBodyFails ==
    /\ pc = "serializing"
    /\ order # << >>
    /\ Fail("transport")
    /\ UNCHANGED << generator, scan, mbox >>

\* Mutant: the document is not written.
WrittenNowhere(out, document) == out

\* print: the whole document, one write.
Written(out, document) == Append(out, document)

\* print a.get_patch_series(opts.id); main returns.
PrintDocument ==
    /\ pc = "serializing"
    /\ order = << >>
    /\ stdout' = Written(stdout, lines)
    /\ exit_status' = ExitOfMain
    /\ pc' = "done"
    /\ UNCHANGED << input, text, start_id, generator, scan, mbox, stderr, failure >>

Next ==
    \/ Connect
    \/ ConnectFails
    \/ Resolve
    \/ ResolveNoXref
    \/ ResolveFails
    \/ FetchWindow
    \/ FetchWindowFails
    \/ TakeSeed
    \/ SeedNotFound
    \/ ForwardExhausted
    \/ ForwardBudget
    \/ ForwardBreak
    \/ ForwardInclude
    \/ ForwardReject
    \/ BackFetch
    \/ BackFetchFails
    \/ BackwardStep
    \/ StartMboxify
    \/ FetchBody
    \/ FetchBodyFails
    \/ PrintDocument

Spec == Init /\ [][Next]_vars

\* The program is sequential: a step that can be taken is taken, every call to
\* the server returning or failing.
LiveSpec == Spec /\ WF_vars(Next)

\* except KeyboardInterrupt: pass -- the user interrupts the run anywhere inside
\* main's try block; main returns.
Interrupt ==
    /\ pc \notin { "done", "failed", "interrupted" }
    /\ pc' = "interrupted"
    /\ exit_status' = ExitOfMain
    /\ UNCHANGED << input, text, start_id, generator, scan, mbox, stdout, stderr, failure >>

NextOrInterrupt ==
    \/ Next
    \/ Interrupt

SpecInterrupt == Init /\ [][NextOrInterrupt]_vars

\* ------------------------------------------- Thread's static methods alone

ReColon == << "R", "e", ":", " " >>
TagVersion == << "[", "P", "A", "T", "C", "H", " ", "v", "2", " " >>
TextTags == { TagOpen, TagVersion, << >> }
TextNumerators == { << "0" >>, << "1" >>, << "2" >>, << "9" >>, << "1", "0" >>, << "0", "1" >> }
TextDenominators == { << "2" >>, << "3" >>, << "1", "0" >> }
TextCloses == { << "]" >>, << >> }
TextTitles == { << >>, << " ", "a" >>, << " ", "f", "i", "x", " ", "0", "/", "1" >> }

\* A subject with the counter numerator/denominator after the tag.
Subject(tag, numerator, denominator, close, title) ==
    tag \o numerator \o << "/" >> \o denominator \o close \o title

TextInputs ==
    [tag : TextTags, numerator : TextNumerators, numerator2 : TextNumerators,
     denominator : TextDenominators, denominator2 : TextDenominators,
     close : TextCloses, title : TextTitles]

\* A Message by PosterA with the subject, referring to nothing.
Posted(subject) == Message(Anchor, subject, PosterA, MsgId(Anchor), << >>)

TextInit ==
    /\ text_in \in TextInputs
    /\ text_out = << >>
    /\ pc = "text"
    /\ archive = << >>
    /\ last = 0
    /\ search_limit = DefaultSearchLimit
    /\ start_id = 0
    /\ gen_start = 0
    /\ gen_buf = << >>
    /\ c = 0
    /\ thread = NoThread
    /\ n_since_last = 0
    /\ back_buf = << >>
    /\ order = << >>
    /\ lines = << >>
    /\ stdout = << >>
    /\ stderr = << >>
    /\ failure = ""
    /\ yielded = << >>
    /\ taken = 0
    /\ fwd_log = << >>
    /\ back_log = << >>
    /\ body_log = << >>
    /\ exit_status = << >>

\* Thread(seed), then subject_identifier and should_include for the subject with
\* another numerator, with another denominator, and with "Re: " before it.
Identify ==
    /\ pc = "text"
    /\ LET in == text_in
           seed == Posted(Subject(in.tag, in.numerator, in.denominator, in.close, in.title))
           other_numerator ==
               Posted(Subject(in.tag, in.numerator2, in.denominator, in.close, in.title))
           other_denominator ==
               Posted(Subject(in.tag, in.numerator, in.denominator2, in.close, in.title))
           reply == Posted(ReColon \o seed.subject)
       IN  /\ thread' = NewThread(seed)
           /\ text_out' =
                 [seed |-> subject_identifier(seed),
                  other_numerator |-> subject_identifier(other_numerator),
                  other_denominator |-> subject_identifier(other_denominator),
                  reply |-> subject_identifier(reply),
                  include_other_numerator |-> should_include(NewThread(seed), other_numerator),
                  include_other_denominator |->
                      should_include(NewThread(seed), other_denominator),
                  include_reply |-> should_include(NewThread(seed), reply)]
    /\ pc' = "identified"
    /\ UNCHANGED << input, text_in, start_id, generator, n_since_last, fwd_log, back_buf,
                    back_log, mbox, stdout, stderr, failure, exit_status >>

TextNext == Identify

TextSpec == TextInit /\ [][TextNext]_vars

\* ----------------------------------------------------------------- claims

\* The three conditions of inclusion, for a candidate, the seed and the sets of
\* known and ignored ids.
AllThreeHold(msg, seed, known, ignored) ==
    /\ msg.poster = seed.poster
    /\ subject_identifier(msg) = subject_identifier(seed)
    /\ \A r \in Range(msg.references) : r \in known \/ r \in ignored

\* The logs only grow, one entry a step: the newest entry of each, looked at in
\* every reachable state, is every entry.
Newest(log) == IF log = << >> THEN {} ELSE { log[Len(log)] }

NewestEvaluations == Newest(fwd_log) \cup Newest(back_log)

ArchiveHeaders == { MessageAt(archive, n) : n \in { k \in DOMAIN archive : HasHeader(archive, k) } }

\* C1: should_include(candidate) is true exactly when the candidate has the
\* seed's poster, the seed's subject identifier, and every reference in
\* known_ids or ignored_references: for every evaluation a scan makes, and for
\* every header of the archive against the thread as the scans leave it.
C1_ShouldIncludeIffAllThree ==
    /\ \A e \in NewestEvaluations :
          e.evaluated =>
             (e.included <=> AllThreeHold(MessageAt(archive, e.number), thread.first, e.ids,
                                          thread.ignored_references))
    /\ pc = "backward" /\ back_buf = << >> =>
          \A m \in ArchiveHeaders :
             should_include(thread, m)
                <=> AllThreeHold(m, thread.first, thread.ids, thread.ignored_references)

\* C1 witness: a scan accepted one candidate and then rejected another that has
\* the seed's poster and subject identifier, for a reference that is not known.
C1_Witness ==
    /\ \E i \in 1..Len(fwd_log) : fwd_log[i].included
    /\ \E e \in Newest(fwd_log) :
          /\ e.evaluated /\ ~e.included
          /\ MessageAt(archive, e.number).poster = thread.first.poster
          /\ subject_identifier(MessageAt(archive, e.number)) = subject_identifier(thread.first)

\* The rejections in a row that end at entry k of the log.
RECURSIVE TrailingRejects(_, _)
TrailingRejects(log, k) ==
    IF k = 0 \/ ~log[k].evaluated \/ log[k].included THEN 0
    ELSE 1 + TrailingRejects(log, k - 1)

IncludedNumbers(log) == { log[i].number : i \in { k \in 1..Len(log) : log[k].included } }

MemberNumbers == { thread.thread[i].number : i \in 1..Len(thread.thread) }

\* C2: the forward scan evaluates a header exactly when at most five rejected
\* candidates in a row precede it; the streak is zero after an acceptance and one
\* more after a rejection; after six rejections in a row the forward scan
\* evaluates and appends nothing more.
C2_GiveUpAfterSix ==
    /\ fwd_log # << >> =>
          LET k == Len(fwd_log)
          IN  /\ fwd_log[k].evaluated <=> TrailingRejects(fwd_log, k - 1) <= 5
              /\ fwd_log[k].included => fwd_log[k].evaluated
              /\ TrailingRejects(fwd_log, k - 1) >= 6 => pc # "forward"
              /\ pc = "forward" => n_since_last = TrailingRejects(fwd_log, k)
    /\ pc = "forward" => n_since_last <= 6
    /\ thread # NoThread =>
          MemberNumbers = { thread.first.number } \cup IncludedNumbers(fwd_log)
                             \cup IncludedNumbers(back_log)

\* C2 witness: the scan stopped at a header that six rejections precede and that
\* should_include would have accepted.
C2_Witness ==
    /\ fwd_log # << >>
    /\ ~fwd_log[Len(fwd_log)].evaluated
    /\ TrailingRejects(fwd_log, Len(fwd_log) - 1) = 6
    /\ should_include(thread, MessageAt(archive, fwd_log[Len(fwd_log)].number))

\* C3: the run fails with the series-bounds error only if the forward scan
\* took its full search_limit budget of headers and the streak never exceeded
\* five: not when the streak exceeded five, and not when the stream ended at
\* the archive's last number with budget left.
C3_BoundsErrorOnlyOnBudget ==
    failure = "series_bounds" => taken >= search_limit /\ n_since_last <= 5

\* The forward scan took search_limit headers, the seed included, and the streak
\* did not exceed five while it took them.
BudgetConsumedQuietly ==
    /\ taken >= 1
    /\ taken >= search_limit
    /\ \A k \in 0..(search_limit - 1) : TrailingRejects(fwd_log, k) <= 5

\* C4: once the forward scan has taken search_limit headers without the streak
\* exceeding five, the run can only fail: with the series-bounds error (a
\* transport error of a further window request aside), after at most one more
\* header, with no backward scan, no body fetched, no block and nothing printed.
C4_BudgetWithoutGiveUpFails ==
    BudgetConsumedQuietly =>
        /\ pc \in { "forward", "failed" }
        /\ pc = "failed" /\ failure # "transport" => failure = "series_bounds"
        /\ taken <= search_limit + 1
        /\ back_log = << >> /\ body_log = << >> /\ lines = << >> /\ stdout = << >>

\* C4 witness: the cap cut the stream and the run failed with the series-bounds
\* error.
C4_Witness ==
    /\ BudgetConsumedQuietly
    /\ pc = "failed"
    /\ failure = "series_bounds"
    /\ Len(yielded) > taken
    /\ \E i \in 1..Len(fwd_log) : fwd_log[i].included

\* C5: the forward scan takes at most search_limit headers, the seed included,
\* from the stream.
C5_AtMostSearchLimitHeaders == taken <= search_limit

\* The headers the archive holds from the start number to its last number.
ExpectedStream == HeadersIn(archive, start_id, last)

IsPrefix(a, b) == Len(a) <= Len(b) /\ SubSeq(b, 1, Len(a)) = a

\* C6: the windowed traversal yields the archive's headers numbered from
\* start_number to last, last included, each once and ascending: what it has
\* yielded is always a prefix of them, and all of them when it ends.
C6_StreamHoldsEveryHeader ==
    pc \notin { "idle", "resolving" } =>
        /\ IsPrefix(yielded, ExpectedStream)
        /\ gen_buf = << >> /\ ~MoreWindows(gen_start, last) => yielded = ExpectedStream

\* C7: a run builds a thread only with the header at the resolved start number
\* as seed; with no header there it fails with the seed-not-found error.
C7_SeedIsStartNumber ==
    /\ thread # NoThread => thread.first.number = start_id
    /\ start_id \in UserNumbers /\ pc # "seed" /\ ~HasHeader(archive, start_id) =>
          pc = "failed" /\ failure \in { "seed_not_found", "transport" }

BlockNumbers(blocks) == [i \in 1..Len(blocks) |-> blocks[i].number]

Document == IF stdout = << >> THEN << >> ELSE stdout[1]

\* A body has a line that starts with "diff ".
BodyHasDiffLine(body) ==
    \E i \in 1..Len(body) :
        /\ Len(body[i]) >= 5
        /\ body[i][1] = "d" /\ body[i][2] = "i" /\ body[i][3] = "f" /\ body[i][4] = "f"
        /\ body[i][5] = " "

\* A member whose body was fetched and whose block mboxify left out.
Dropped(e) ==
    CounterZero(MessageAt(archive, e.number).subject) /\ ~BodyHasDiffLine(e.body)

RECURSIVE KeptNumbers(_)
KeptNumbers(log) ==
    IF log = << >> THEN << >>
    ELSE KeptNumbers(SubSeq(log, 1, Len(log) - 1))
         \o (IF Dropped(log[Len(log)]) THEN << >> ELSE << log[Len(log)].number >>)

\* The blocks of a printed document are the members not dropped, each once, in
\* ascending sortkey order with digit runs compared as integers.
C8_BlocksInSortkeyOrder ==
    pc = "done" =>
        /\ { Document[i].number : i \in 1..Len(Document) }
              = MemberNumbers \ { e.number : e \in { x \in Range(body_log) : Dropped(x) } }
        /\ \A i, j \in 1..Len(Document) :
              i < j =>
                 /\ Document[i].number # Document[j].number
                 /\ ~KeyLess(sortkey(Document[j]), sortkey(Document[i]))
                 /\ ~(Document[i].subject = Subj_10_10 /\ Document[j].subject = Subj_9_10)

\* The archive of scenario A: the seed "[PATCH 0/2] intro" at the start number,
\* "[PATCH 1/2]" and "[PATCH 2/2]" after it, each referring to the one before,
\* by the same poster, and nothing else of the series.
IsScenarioA ==
    /\ start_id = Anchor
    /\ search_limit = DefaultSearchLimit
    /\ HasHeader(archive, Anchor + 2)
    /\ \A n \in DOMAIN archive :
          archive[n] = (IF n = Anchor THEN "intro"
                        ELSE IF n = Anchor + 1 THEN "member1"
                        ELSE IF n = Anchor + 2 THEN "member2"
                        ELSE "filler")

\* The run is over and no transport call failed.
RunOver == pc \in { "done", "failed" } /\ failure # "transport"

\* C8: a printed document holds the members not dropped, each once, in
\* ascending sortkey order (9/10 before 10/10); and on the archive of scenario A,
\* with a diff in every body, the run succeeds with the blocks 10, 11, 12.
C8_SortedBlocksAndScenarioA ==
    /\ C8_BlocksInSortkeyOrder
    /\ IsScenarioA /\ RunOver /\ (\A e \in Range(body_log) : e.body = BodyPatch) =>
          /\ pc = "done"
          /\ BlockNumbers(Document) = << Anchor, Anchor + 1, Anchor + 2 >>

RECURSIVE FirstNumerator(_)
FirstNumerator(s) ==
    IF s = << >> THEN -1
    ELSE IF IsDigit(Head(s))
         THEN LET e == RunEnd(s, 1, TRUE)
              IN  IF e <= Len(s) /\ s[e] = "/" THEN IntOf(SubSeq(s, 1, e - 1))
                  ELSE FirstNumerator(SubSeq(s, e, Len(s)))
         ELSE FirstNumerator(Tail(s))

CounterNumerator(subject) == FirstNumerator(BeforeBracket(subject))

BlocksOf(n) == { i \in 1..Len(Document) : Document[i].number = n }

ExpectedBackward == HeadersIn(archive, start_id - 5, start_id - 1)

\* C10: after the forward scan, the headers numbered start_number-5 to
\* start_number-1 are evaluated once each, ascending, against the thread as it
\* then stands, and appended iff should_include holds; no header numbered below
\* start_number-5 is ever a member.
C10_BackwardWindow ==
    /\ pc = "backward" => BlockNumbers(back_log) \o back_buf = ExpectedBackward
    /\ pc \in { "serializing", "done" } => BlockNumbers(back_log) = ExpectedBackward
    /\ back_log # << >> =>
          LET k == Len(back_log)
              e == back_log[k]
              m == MessageAt(archive, e.number)
              before == { thread.first.number } \cup IncludedNumbers(fwd_log)
                           \cup IncludedNumbers(SubSeq(back_log, 1, k - 1))
          IN  /\ pc \notin { "seed", "forward", "backfetch" }
              /\ ~fwd_log[Len(fwd_log)].evaluated
              /\ e.evaluated
              /\ e.ids = { MessageAt(archive, n).msg_id : n \in before }
              /\ e.included <=> AllThreeHold(m, thread.first, e.ids, thread.ignored_references)
              /\ e.included <=> e.number \in MemberNumbers
    /\ \A n \in MemberNumbers : n >= start_id - 5

\* C10 witness: a "0/2" lead five numbers before a "1/2" seed became a member,
\* and one six numbers before it, which should_include accepts, did not.
C10_Witness ==
    /\ pc = "serializing"
    /\ thread.first.subject = Subj_1_2
    /\ start_id - 5 \in MemberNumbers
    /\ MessageAt(archive, start_id - 5).subject = Subj_0_2
    /\ HasHeader(archive, start_id - 6)
    /\ should_include(thread, MessageAt(archive, start_id - 6))

\* C11: output is all or nothing: nothing is on standard output unless the run
\* is done, and then it is the one complete document: every member's body was
\* fetched, in in_order's order, and the blocks are those of the members kept.
C11_AllOrNothing ==
    /\ pc # "done" => stdout = << >>
    /\ pc = "done" =>
          /\ stdout = << lines >>
          /\ order = << >>
          /\ BlockNumbers(body_log) = BlockNumbers(in_order(thread))
          /\ BlockNumbers(Document) = KeptNumbers(body_log)

\* C11 witness: the body fetch of a later member failed after a block had been
\* built, and nothing was printed.
C11_Witness ==
    /\ pc = "failed"
    /\ failure = "transport"
    /\ lines # << >>
    /\ order # << >>
    /\ stdout = << >>

\* C12: the exit status is zero iff the document was produced: a failed run has
\* written one diagnostic line and exits non-zero, an interrupted run exits
\* non-zero with no diagnostic.
C12_ExitZeroIffDocument ==
    pc \in { "done", "failed", "interrupted" } =>
        /\ exit_status # << >>
        /\ exit_status = << 0 >> <=> pc = "done"
        /\ pc = "failed" => Len(stderr) = 1
        /\ pc = "interrupted" => stderr = << >>

\* The phase of the run: Idle, Resolving, ForwardScanning, BackwardScanning,
\* Serializing, Done; Failed is apart.
Phase ==
    CASE pc = "idle" -> 0
      [] pc = "resolving" -> 1
      [] pc \in { "seed", "forward" } -> 2
      [] pc \in { "backfetch", "backward" } -> 3
      [] pc = "serializing" -> 4
      [] pc = "done" -> 5
      [] OTHER -> 6

PhaseStep ==
    /\ failure = ""
    /\ pc \notin { "done", "failed" }
    /\ pc' = "failed" \/ Phase' = Phase \/ Phase' = Phase + 1
    /\ failure' # "" => pc' = "failed"

\* C13: a step stays in its phase, enters the next one, or fails; a failure
\* moves the run to Failed at once, and no step (so no call to the server) is
\* taken after a failure or after Done.
C13_PhasesInOrderNoRetry == [][PhaseStep]_vars

\* C13 witness: the run went through every phase up to serialization and a
\* body fetch failed there.
C13_Witness ==
    /\ pc = "failed"
    /\ failure = "transport"
    /\ body_log # << >>
    /\ back_log # << >>

\* The entries of both scans.
Evaluations == Range(fwd_log) \cup Range(back_log)

\* C14: a body is fetched only in serialization, after both scans ended, only
\* for members, once each; never for a header rejected or not evaluated.
C14_BodiesOnlyForMembers ==
    body_log # << >> =>
        /\ pc \in { "serializing", "done", "failed" }
        /\ ~fwd_log[Len(fwd_log)].evaluated
        /\ back_buf = << >>
        /\ BlockNumbers(back_log) = ExpectedBackward
        /\ Range(BlockNumbers(body_log)) \subseteq MemberNumbers
        /\ Cardinality(Range(BlockNumbers(body_log))) = Len(body_log)
        /\ \A e \in Evaluations :
              ~e.included => e.number \notin Range(BlockNumbers(body_log))

\* C14 witness: a finished run with three bodies fetched, and headers rejected
\* in both scans.
C14_Witness ==
    /\ pc = "done"
    /\ Len(body_log) >= 3
    /\ \E i \in 1..Len(fwd_log) : fwd_log[i].evaluated /\ ~fwd_log[i].included
    /\ \E i \in 1..Len(back_log) : ~back_log[i].included

\* C15: of two members with equal sortkey the one with the smaller archive
\* number comes first in the document.
C15_TiesByArchiveNumber ==
    pc = "done" =>
        \A i, j \in 1..Len(Document) :
            i < j /\ sortkey(Document[i]) = sortkey(Document[j])
                => Document[i].number < Document[j].number

\* The newest evaluation of the run.
LastEvaluation == IF back_log # << >> THEN Newest(back_log) ELSE Newest(fwd_log)

MemberIds == { thread.thread[i].msg_id : i \in 1..Len(thread.thread) }

\* C16: known_ids is the set of message-ids of the seed and the appended
\* members: {seed.msg_id} at first, one id more for an append, none less ever.
C16_KnownIdsAreMemberIds ==
    /\ thread # NoThread =>
          /\ thread.ids = MemberIds
          /\ thread.thread[1] = thread.first
          /\ fwd_log = << >> => thread.ids = { thread.first.msg_id }
          /\ Len(thread.thread)
                = 1 + Cardinality(IncludedNumbers(fwd_log) \cup IncludedNumbers(back_log))
    /\ \A e \in LastEvaluation :
          /\ thread.first.msg_id \in e.ids
          /\ thread.ids = IF e.included
                          THEN e.ids \cup { MessageAt(archive, e.number).msg_id }
                          ELSE e.ids
          /\ e.included => MessageAt(archive, e.number).msg_id \notin e.ids

\* C16 witness: the seed, a member the forward scan appended and one the
\* backward scan appended.
C16_Witness ==
    /\ Len(thread.thread) >= 3
    /\ back_log # << >>
    /\ back_log[Len(back_log)].included
    /\ IncludedNumbers(fwd_log) # {}

IdsBelow(n) == { MessageAt(archive, k).msg_id : k \in { j \in MemberNumbers : j < n } }

\* A member has the seed's poster and subject identifier, and refers only to
\* ignored references and to members.
ClosedMember(m) ==
    /\ m.poster = thread.first.poster
    /\ subject_identifier(m) = subject_identifier(thread.first)
    /\ Range(m.references) \subseteq thread.ignored_references \cup MemberIds

\* C18: every member but the seed has the seed's poster and subject identifier,
\* and each of its references is an ignored reference or the id of a member; a
\* member the forward scan accepted refers, ignored references aside, only to
\* the seed and to members with a smaller number.
C18_ReferenceClosure ==
    /\ \A e \in LastEvaluation :
          e.included =>
              LET m == MessageAt(archive, e.number)
              IN  /\ ClosedMember(m)
                  /\ m = thread.thread[Len(thread.thread)]
                  /\ Range(m.references) \subseteq thread.ignored_references \cup e.ids
                  /\ back_log = << >> => e.ids = IdsBelow(e.number)
    /\ pc = "serializing" /\ body_log = << >> =>
          \A i \in 2..Len(thread.thread) : ClosedMember(thread.thread[i])

\* C18 witness: a forward member that refers to an ignored reference and to the
\* seed, and a member the backward scan appended.
C18_Witness ==
    /\ pc = "serializing"
    /\ \E i \in 2..Len(thread.thread) :
          /\ thread.thread[i].number > start_id
          /\ ExternalId \in Range(thread.thread[i].references)
          /\ thread.first.msg_id \in Range(thread.thread[i].references)
    /\ IncludedNumbers(back_log) # {}

\* C19: a header is evaluated at most once and the seed never: the forward
\* scan's headers ascend from above the seed, the backward scan's ascend below
\* the start number; no number is twice among the members or the blocks.
C19_EvaluatedOnce ==
    /\ fwd_log # << >> =>
          LET k == Len(fwd_log)
          IN  fwd_log[k].number
                 > (IF k = 1 THEN thread.first.number ELSE fwd_log[k - 1].number)
    /\ back_log # << >> =>
          LET k == Len(back_log)
          IN  /\ back_log[k].number < start_id
              /\ start_id <= thread.first.number
              /\ k > 1 => back_log[k].number > back_log[k - 1].number
    /\ thread # NoThread => Cardinality(MemberNumbers) = Len(thread.thread)
    /\ pc = "done" => Cardinality(Range(BlockNumbers(Document))) = Len(Document)

\* C19 witness: the forward scan went through more than one window and every
\* header of them became a member.
C19_Witness ==
    /\ Len(fwd_log) > WindowStep
    /\ Len(thread.thread) = Len(fwd_log) + 1
    /\ gen_start > start_id + WindowStep + 1

\* A step that stays in the forward traversal with nothing buffered is a
\* window request: it moves the cursor up.
CursorAdvances ==
    pc \in { "seed", "forward" } /\ pc' = pc /\ gen_buf = << >> => gen_start' > gen_start

\* C20 (under LiveSpec): every run ends in Done or Failed, and every window
\* request of the forward traversal moves its cursor strictly up.
C20_RunTerminates == <>(pc \in { "done", "failed" }) /\ [][CursorAdvances]_vars

\* C20 witness: a run that asked for a second window and ended.
C20_Witness ==
    /\ pc \in { "done", "failed" }
    /\ gen_start > start_id + WindowStep + 1
    /\ Len(yielded) > WindowStep + 1
====
